---- MODULE Spec2Model ----
(***************************************************************************)
(* Model of repo-scripts/size-analysis/analysis.ts: the CLI driver (main), *)
(* the directory traverser (traverseDirs), the per-module action           *)
(* (generateReportForModule) and the report builder (generateReport,       *)
(* buildJsonReport).                                                       *)
(*                                                                         *)
(* JavaScript runs every function to completion until its first await.     *)
(* An async function called without await starts at once, runs to its      *)
(* first await, and leaves a promise behind; its continuation runs later,  *)
(* never in the middle of the synchronous code that called it.  The model  *)
(* keeps one record per running async activation (tasks) and lets a        *)
(* continuation run only when no synchronous code is on the stack.         *)
(*                                                                         *)
(* String flags are modelled by their truthiness (a non-empty string was   *)
(* supplied); inputModule is undefined or an array, and an array is truthy *)
(* even when empty.  ExportData values are not modelled, only the keys of  *)
(* the result object in property order.  Directory entries that are not    *)
(* directories are filtered by lstatSync and are not represented.          *)
(***************************************************************************)
EXTENDS Naturals, Sequences, FiniteSets, TLC

\* ---------------------------------------------------------------- bounds

\* directories in the workspace of a whole run of main
MaxDirs == 2
\* symbols a module's declaration file exports in a whole run of main
MaxModuleSymbols == 2
\* symbols of a MemberList handed to the report builder alone
MaxSymbols == 3
\* directories of a tree handed to traverseDirs alone
MaxTreeDirs == 4
\* largest levelLimit handed to traverseDirs alone
MaxLevel == 2

\* ------------------------------------------------------ program constants

\* the levelLimit generateReportForModules passes to traverseDirs
LevelLimit == 1

REPORT_REDIRECTION_ERROR == "REPORT_REDIRECTION_ERROR"
INVALID_FLAG_COMBINATION == "INVALID_FLAG_COMBINATION"
BUNDLE_FILE_DOES_NOT_EXIST == "BUNDLE_FILE_DOES_NOT_EXIST"
INPUT_FILE_DOES_NOT_EXIST == "INPUT_FILE_DOES_NOT_EXIST"
\* a rejection of extractDependenciesAndSize
EXTRACTION_FAILED == "EXTRACTION_FAILED"

\* argv.inputModule when the flag is not given, and when it is given with names
Undefined == [array |-> FALSE, names |-> {}]
Array(names) == [array |-> TRUE, names |-> names]

SymbolNames == <<"Bar", "foo", "baz", "Qux">>

Min(a, b) == IF a < b THEN a ELSE b

VARIABLES
  argv,            \* the parsed command line
  parent,          \* the file system: parent[d] is the directory holding d, 0 the workspace
  decls,           \* the MemberList extractDeclarations returns
  levelLimit,      \* traverseDirs' levelLimit
  mainPc,          \* where main is
  mainErr,         \* the error main's promise rejected with
  discovered,      \* mapWorkspaceToPackages was called
  moduleLocations, \* what main handed to generateReportForModules
  pending,         \* traverseDirs calls still to be made, next first
  tasks,           \* the async activations, in the order they were started
  written,         \* writeReportToDirectory / writeReportToFile calls, in order
  uploads          \* uploadReportToCI calls, in order

vars == <<argv, parent, decls, levelLimit, mainPc, mainErr, discovered,
          moduleLocations, pending, tasks, written, uploads>>

\* --------------------------------------------------------------- MemberList

\* the sequences of elements of S of length at most n
SeqsUpTo(S, n) == UNION {[1..k -> S] : k \in 0..n}

Symbols(n) == {SymbolNames[i] : i \in 1..Min(n, Len(SymbolNames))}

SubList(s, a, b) == [i \in 1..(b - a) |-> s[a + i]]

\* MemberList: the exported names in four categories.  A name listed twice, in
\* one category or in two, is let in: nothing in this file excludes it.
MemberLists(n) ==
  {[classes |-> SubList(s, 0, a), functions |-> SubList(s, a, b),
    variables |-> SubList(s, b, c), enums |-> SubList(s, c, Len(s))] :
     <<s, a, b, c>> \in {q \in SeqsUpTo(Symbols(n), n) \X (0..n) \X (0..n) \X (0..n) :
                          q[2] <= q[3] /\ q[3] <= q[4] /\ q[4] <= Len(q[1])}}

\* the MemberList exporting the first n names, one per category
ModuleMemberList(n) ==
  [classes |-> IF n >= 1 THEN <<SymbolNames[1]>> ELSE <<>>,
   functions |-> IF n >= 2 THEN <<SymbolNames[2]>> ELSE <<>>,
   variables |-> IF n >= 3 THEN <<SymbolNames[3]>> ELSE <<>>,
   enums |-> IF n >= 4 THEN <<SymbolNames[4]>> ELSE <<>>]

ModuleMemberLists == {ModuleMemberList(n) : n \in 0..Min(MaxModuleSymbols, 4)}

\* ------------------------------------------------------------- buildJsonReport

\* a bug: the first two loops are in the other order
LoopListFunctionsFirst(api, k) ==
  CASE k = 1 -> api.functions
    [] k = 2 -> api.classes
    [] k = 3 -> api.variables
    [] k = 4 -> api.enums
    [] OTHER -> <<>>

\* the list the k-th for loop of buildJsonReport iterates over
LoopList(api, k) ==
  CASE k = 1 -> api.classes
    [] k = 2 -> api.functions
    [] k = 3 -> api.variables
    [] k = 4 -> api.enums
    [] OTHER -> <<>>

RECURSIVE NextPosition(_, _, _)
\* the loop and index of the next iteration after index i of loop k; loop 5 is
\* the return statement
NextPosition(api, k, i) ==
  IF k > 4 THEN [loop |-> 5, idx |-> 0]
  ELSE IF i + 1 <= Len(LoopList(api, k)) THEN [loop |-> k, idx |-> i + 1]
  ELSE NextPosition(api, k + 1, 0)

\* a bug: the results are pushed to a list, a name listed twice is kept twice
SetKeyPush(keys, exp) == Append(keys, exp)

\* result[exp] = ... on an object whose keys, in property order, are keys
SetKey(keys, exp) ==
  IF \E i \in DOMAIN keys : keys[i] = exp THEN keys ELSE Append(keys, exp)

\* the keys of JSON.stringify(result, null, 4), in the order of the text: the
\* property order of an object whose keys are identifiers, none integer-like,
\* is the order in which the keys were first set
JSONstringify(keys) == keys

\* buildJsonReport from its call to its first await (or its return)
buildJsonReportStart(t, api) ==
  LET p == NextPosition(api, 1, 0)
  IN IF p.loop = 5
     THEN [t EXCEPT !.pc = "built", !.loop = 5, !.json = JSONstringify(<<>>)]
     ELSE [t EXCEPT !.pc = "extracting", !.loop = p.loop, !.idx = p.idx,
                    !.calls = <<LoopList(api, p.loop)[p.idx]>>]

\* buildJsonReport from the fulfilment of the awaited extraction to the next await
buildJsonReportResume(t, api) ==
  LET keys == SetKey(t.keys, LoopList(api, t.loop)[t.idx])
      p == NextPosition(api, t.loop, t.idx)
  IN IF p.loop = 5
     THEN [t EXCEPT !.pc = "built", !.loop = 5, !.idx = 0, !.keys = keys,
                    !.fulfilled = t.fulfilled + 1, !.json = JSONstringify(keys)]
     ELSE [t EXCEPT !.loop = p.loop, !.idx = p.idx, !.keys = keys,
                    !.fulfilled = t.fulfilled + 1,
                    !.calls = Append(t.calls, LoopList(api, p.loop)[p.idx])]

\* -------------------------------------------------------------- generateReport

Kinds == {"nomanifest", "notypings", "nobundle", "missinginput", "ok"}

\* a fresh activation for directory d (0: the adhoc report main awaits)
NewTask(d, kind) ==
  [dir |-> d, kind |-> kind, pc |-> "called", err |-> "none",
   entered |-> FALSE, extracted |-> FALSE,
   loop |-> 0, idx |-> 0, calls |-> <<>>, fulfilled |-> 0, keys |-> <<>>,
   json |-> <<>>]

\* generateReport from its call to its first await: the input-file check, the
\* declaration extractor, and the start of buildJsonReport
generateReport(t, api) ==
  IF t.kind = "missinginput"
  THEN [t EXCEPT !.entered = TRUE, !.pc = "rejected", !.err = INPUT_FILE_DOES_NOT_EXIST]
  ELSE buildJsonReportStart([t EXCEPT !.entered = TRUE, !.extracted = TRUE], api)

\* ----------------------------------------------------- generateReportForModule

\* a bug: the bundle field is not checked before it is used
generateReportForModuleUnchecked(d, kind, api) ==
  LET t == NewTask(d, kind)
  IN CASE kind = "nomanifest" -> [t EXCEPT !.pc = "skipped"]
       [] kind = "notypings" -> [t EXCEPT !.pc = "skipped"]
       [] OTHER -> generateReport(t, api)

\* generateReportForModule from its call to its first await
generateReportForModule(d, kind, api) ==
  LET t == NewTask(d, kind)
  IN CASE kind = "nomanifest" -> [t EXCEPT !.pc = "skipped"]
       [] kind = "notypings" -> [t EXCEPT !.pc = "skipped"]
       [] kind = "nobundle" -> [t EXCEPT !.pc = "failed", !.err = BUNDLE_FILE_DOES_NOT_EXIST]
       [] OTHER -> generateReport(t, api)

\* a bug: the report is written in a finally block, with what it holds by then
ModuleWritesAlways(t, writeFiles) ==
  IF writeFiles THEN <<[dir |-> t.dir, json |-> JSONstringify(t.keys)]>> ELSE <<>>

\* generateReportForModule from the settling of generateReport to its end:
\* what it hands to writeReportToDirectory
ModuleWrites(t, writeFiles) ==
  IF t.pc = "built" /\ writeFiles THEN <<[dir |-> t.dir, json |-> t.json]>> ELSE <<>>

\* ... and its calls of uploadReportToCI
ModuleUploads(t, uploadToCI) ==
  IF t.pc = "built" /\ uploadToCI THEN <<t.dir>> ELSE <<>>

\* ... and how its promise settles
ModuleSettled(t) ==
  IF t.pc = "built" THEN [t EXCEPT !.pc = "done"] ELSE [t EXCEPT !.pc = "failed"]

\* ------------------------------------------------------------------ file system

Dirs == 1..Len(parent)

Ids(n) == [i \in 1..n |-> i]

\* the directories among fs.readdirSync(d), in the order it lists them
Children(d) == SelectSeq(Ids(Len(parent)), LAMBDA c : parent[c] = d)

\* what mapWorkspaceToPackages resolves to: the directories of the workspace glob
WorkspacePackages == Children(0)

\* the name field of the package.json of directory d
PackageName(d) == d

RECURSIVE Depth(_)
\* how far d lies below the root of its module
Depth(d) == IF parent[d] = 0 THEN 0 ELSE 1 + Depth(parent[d])

\* the file systems of at most n directories
Forests(n) ==
  {p \in UNION {[1..k -> 0..n] : k \in 0..n} : \A i \in DOMAIN p : p[i] < i}

\* those with one top directory
Trees(n) == {p \in Forests(n) : Len(p) >= 1 /\ \A i \in DOMAIN p : i > 1 => p[i] >= 1}

\* ------------------------------------------------------------------------ main

\* an array is truthy, the empty one too
Truthy(inputModule) == inputModule.array

\* a bug: batch mode is entered whenever inputBundleFile is not set
ModeBundleOnly(a) ==
  IF ~a.output /\ ~a.ci THEN "redirection_error"
  ELSE IF a.inputDtsFile /\ a.inputBundleFile /\ a.output THEN "adhoc"
  ELSE IF ~a.inputBundleFile THEN "batch"
  ELSE "invalid"

\* a bug: the destination is checked only when no mode was found
ModeRedirectionLast(a) ==
  IF a.inputDtsFile /\ a.inputBundleFile /\ a.output THEN "adhoc"
  ELSE IF ~a.inputDtsFile /\ ~a.inputBundleFile THEN "batch"
  ELSE IF ~a.output /\ ~a.ci THEN "redirection_error"
  ELSE "invalid"

\* the branch main takes
Mode(a) ==
  IF ~a.output /\ ~a.ci THEN "redirection_error"
  ELSE IF a.inputDtsFile /\ a.inputBundleFile /\ a.output THEN "adhoc"
  ELSE IF ~a.inputDtsFile /\ ~a.inputBundleFile THEN "batch"
  ELSE "invalid"

\* allModulesLocation after the inputModule filter
FilterModules(all, inputModule) ==
  IF Truthy(inputModule)
  THEN SelectSeq(all, LAMBDA d : PackageName(d) \in inputModule.names)
  ELSE all

\* main from its call to its first await (or its throw)
MainStart ==
  /\ mainPc = "start"
  /\ CASE Mode(argv) = "redirection_error" ->
            /\ mainPc' = "failed"
            /\ mainErr' = REPORT_REDIRECTION_ERROR
            /\ UNCHANGED <<discovered, tasks>>
       [] Mode(argv) = "adhoc" ->
            /\ \E kind \in {"missinginput", "ok"} :
                 tasks' = <<generateReport(NewTask(0, kind), decls)>>
            /\ mainPc' = "await_report"
            /\ UNCHANGED <<mainErr, discovered>>
       [] Mode(argv) = "batch" ->
            /\ discovered' = TRUE
            /\ mainPc' = "await_workspace"
            /\ UNCHANGED <<mainErr, tasks>>
       [] OTHER ->
            /\ mainPc' = "failed"
            /\ mainErr' = INVALID_FLAG_COMBINATION
            /\ UNCHANGED <<discovered, tasks>>
  /\ UNCHANGED <<argv, parent, decls, levelLimit, moduleLocations, pending,
                 written, uploads>>

\* main's adhoc branch from the settling of generateReport to its end
MainResumeAdhoc ==
  /\ mainPc = "await_report"
  /\ tasks[1].pc \in {"built", "rejected"}
  /\ IF tasks[1].pc = "built"
     THEN /\ written' = Append(written, [dir |-> 0, json |-> tasks[1].json])
          /\ mainPc' = "done"
          /\ tasks' = [tasks EXCEPT ![1].pc = "done"]
          /\ UNCHANGED mainErr
     ELSE /\ mainPc' = "failed"
          /\ mainErr' = tasks[1].err
          /\ tasks' = [tasks EXCEPT ![1].pc = "failed"]
          /\ UNCHANGED written
  /\ UNCHANGED <<argv, parent, decls, levelLimit, discovered, moduleLocations,
                 pending, uploads>>

\* the traverseDirs calls generateReportForModules makes, one per module location
Calls(dirs, level) == [i \in 1..Len(dirs) |-> [dir |-> dirs[i], level |-> level]]

\* main's batch branch from the settling of mapWorkspaceToPackages to the first
\* traverseDirs call of generateReportForModules
MainResumeBatch ==
  /\ mainPc = "await_workspace"
  /\ moduleLocations' = FilterModules(WorkspacePackages, argv.inputModule)
  /\ pending' = Calls(moduleLocations', 0)
  /\ mainPc' = IF pending' = <<>> THEN "done" ELSE "traversing"
  /\ UNCHANGED <<argv, parent, decls, levelLimit, mainErr, discovered, tasks,
                 written, uploads>>

\* ---------------------------------------------------------------- traverseDirs

\* a bug: the level check is off by one
TooDeepOffByOne(level, limit) == level > limit + 1

\* the early return of traverseDirs
TooDeep(level, limit) == level > limit

\* what the file system may hold at a directory: a directory of the workspace
\* glob is a package, and has its package.json
KindsAt(level) == IF level = 0 THEN Kinds \ {"nomanifest"} ELSE Kinds

\* one call of traverseDirs, up to its first recursive call: the level check,
\* the executor (which runs to its first await and is not awaited), and the
\* listing of the directory.  When the last call returns, so do
\* generateReportForModules and main.
TraverseStep ==
  /\ mainPc = "traversing"
  /\ pending # <<>>
  /\ LET call == Head(pending)
     IN IF TooDeep(call.level, levelLimit)
        THEN /\ pending' = Tail(pending)
             /\ UNCHANGED tasks
        ELSE /\ \E kind \in KindsAt(call.level) :
                  tasks' = Append(tasks, generateReportForModule(call.dir, kind, decls))
             /\ pending' = Calls(Children(call.dir), call.level + 1) \o Tail(pending)
  /\ mainPc' = IF pending' = <<>> THEN "done" ELSE "traversing"
  /\ UNCHANGED <<argv, parent, decls, levelLimit, mainErr, discovered,
                 moduleLocations, written, uploads>>

\* ----------------------------------------------------------- continuations

\* no synchronous code is running: a continuation may run
Idle == mainPc # "traversing"

\* the extraction task i awaits settles, and buildJsonReport runs on to its next
\* await, its return or its rejection
ExtractionCompletes(i) ==
  /\ Idle
  /\ tasks[i].pc = "extracting"
  /\ \E ok \in BOOLEAN :
       tasks' = [tasks EXCEPT ![i] =
                   IF ok THEN buildJsonReportResume(tasks[i], decls)
                   ELSE [tasks[i] EXCEPT !.pc = "rejected", !.err = EXTRACTION_FAILED]]
  /\ UNCHANGED <<argv, parent, decls, levelLimit, mainPc, mainErr, discovered,
                 moduleLocations, pending, written, uploads>>

\* generateReportForModule of task i resumes after its await of generateReport
ModuleResume(i) ==
  /\ Idle
  /\ tasks[i].dir # 0
  /\ tasks[i].pc \in {"built", "rejected"}
  /\ written' = written \o ModuleWrites(tasks[i], argv.output)
  /\ uploads' = uploads \o ModuleUploads(tasks[i], argv.ci)
  /\ tasks' = [tasks EXCEPT ![i] = ModuleSettled(tasks[i])]
  /\ UNCHANGED <<argv, parent, decls, levelLimit, mainPc, mainErr, discovered,
                 moduleLocations, pending>>

\* --------------------------------------------------------------- specifications

ArgvSet(n) ==
  [output : BOOLEAN, ci : BOOLEAN, inputDtsFile : BOOLEAN, inputBundleFile : BOOLEAN,
   inputModule : {Undefined} \cup {Array(names) : names \in SUBSET (1..n)}]

InitRest ==
  /\ mainErr = "none"
  /\ pending = <<>>
  /\ tasks = <<>>
  /\ written = <<>>
  /\ uploads = <<>>

\* a run of main
Init ==
  /\ argv \in ArgvSet(MaxDirs)
  /\ parent \in Forests(MaxDirs)
  /\ decls \in ModuleMemberLists
  /\ levelLimit = LevelLimit
  /\ mainPc = "start"
  /\ discovered = FALSE
  /\ moduleLocations = <<>>
  /\ InitRest

Next ==
  \/ MainStart
  \/ MainResumeAdhoc
  \/ MainResumeBatch
  \/ TraverseStep
  \/ \E i \in DOMAIN tasks : ExtractionCompletes(i)
  \/ \E i \in DOMAIN tasks : ModuleResume(i)

Spec == Init /\ [][Next]_vars

\* a run of main in adhoc mode, over every MemberList the declaration extractor
\* may return
InitReport ==
  /\ argv \in {a \in ArgvSet(0) : Mode(a) = "adhoc"}
  /\ parent = <<>>
  /\ decls \in MemberLists(MaxSymbols)
  /\ levelLimit = LevelLimit
  /\ mainPc = "start"
  /\ discovered = FALSE
  /\ moduleLocations = <<>>
  /\ InitRest

NextReport ==
  \/ MainStart
  \/ MainResumeAdhoc
  \/ \E i \in DOMAIN tasks : ExtractionCompletes(i)

SpecReport == InitReport /\ [][NextReport]_vars

\* traverseDirs called at level 0 on the top directory of any tree, with any
\* levelLimit, and generateReportForModule as its executor
InitTraverse ==
  /\ argv \in {a \in ArgvSet(0) : Mode(a) = "batch" /\ a.output /\ ~a.ci /\ ~Truthy(a.inputModule)}
  /\ parent \in Trees(MaxTreeDirs)
  /\ decls \in ModuleMemberLists
  /\ levelLimit \in 0..MaxLevel
  /\ mainPc = "traversing"
  /\ discovered = TRUE
  /\ moduleLocations = <<1>>
  /\ mainErr = "none"
  /\ pending = Calls(moduleLocations, 0)
  /\ tasks = <<>>
  /\ written = <<>>
  /\ uploads = <<>>

NextTraverse == TraverseStep

SpecTraverse == InitTraverse /\ [][NextTraverse]_vars

\* ------------------------------------------------------------------- claims

\* the listed symbols in the order classes, functions, variables, enums
Order(api) == api.classes \o api.functions \o api.variables \o api.enums

Range(s) == {s[i] : i \in DOMAIN s}

IsPrefix(s, t) == Len(s) <= Len(t) /\ \A i \in DOMAIN s : s[i] = t[i]

NoDuplicates(s) == \A i, j \in DOMAIN s : i # j => s[i] # s[j]

RECURSIVE FirstOccurrences(_, _)
\* the first k elements of s, each kept where it first occurs
FirstOccurrences(s, k) ==
  IF k = 0 THEN <<>>
  ELSE LET r == FirstOccurrences(s, k - 1)
       IN IF s[k] \in Range(r) THEN r ELSE Append(r, s[k])

\* the activations of generateReportForModule, and those whose promise has settled
ModuleTasks == {i \in DOMAIN tasks : tasks[i].dir # 0}
Settled(t) == t.pc \in {"skipped", "failed", "done"}
Failing(t) == t.pc \in {"rejected", "failed"}

\* C1: a report that was built has as its keys exactly the names of the
\* MemberList, each once, and an empty MemberList gives the empty object; the
\* same holds of every report handed to a writer.
C1_ReportKeysAreTheSymbols ==
  /\ \A i \in DOMAIN tasks :
       tasks[i].pc \in {"built", "done"} =>
         /\ Range(tasks[i].json) = Range(Order(decls))
         /\ NoDuplicates(tasks[i].json)
         /\ (Order(decls) = <<>> => tasks[i].json = <<>>)
  /\ \A k \in DOMAIN written :
       /\ Range(written[k].json) = Range(Order(decls))
       /\ NoDuplicates(written[k].json)

\* a report with names in three categories was built and written
C1_Witness ==
  /\ decls.classes # <<>> /\ decls.variables # <<>> /\ decls.enums # <<>>
  /\ NoDuplicates(Order(decls))
  /\ mainPc = "done"
  /\ Len(written) = 1 /\ Len(written[1].json) = 3

\* C1 again for the MemberList with no names: the report is the empty object
C1_EmptyWitness == Order(decls) = <<>> /\ mainPc = "done" /\ written = <<[dir |-> 0, json |-> <<>>]>>

\* C2 (as claimed): once a per-module action has failed in batch mode, no
\* per-module action starts for another directory, nothing more is written
\* or uploaded, and main does not complete normally.
C2_FailureAbortsTheRun ==
  [][(\E i \in ModuleTasks : Failing(tasks[i])) =>
       /\ Len(tasks') = Len(tasks)
       /\ written' = written
       /\ uploads' = uploads
       /\ mainPc' # "done"]_vars

\* C3 (as claimed): the per-module action of an earlier directory has run to
\* completion before the action of a later directory begins, so at most one
\* report is under construction at any time.
C3_ModulesOneAfterAnother ==
  /\ \A i, j \in ModuleTasks : i < j => Settled(tasks[i])
  /\ Cardinality({i \in ModuleTasks : ~Settled(tasks[i])}) <= 1

\* C4: a report is handed to a writer or to the CI hook only by an activation
\* whose every per-symbol extraction has completed, with all the symbols in it;
\* an activation whose input-file check or extraction failed writes and uploads
\* nothing.
C4_NoPartialReport ==
  /\ \A k \in DOMAIN written :
       /\ written[k].json = Order(decls)
       /\ \E i \in DOMAIN tasks :
            /\ tasks[i].dir = written[k].dir
            /\ tasks[i].pc = "done"
            /\ tasks[i].keys = Order(decls)
            /\ tasks[i].calls = Order(decls)
  /\ \A k \in DOMAIN uploads :
       \E i \in DOMAIN tasks :
         /\ tasks[i].dir = uploads[k]
         /\ tasks[i].pc = "done"
         /\ tasks[i].keys = Order(decls)
  /\ \A i \in DOMAIN tasks :
       (Failing(tasks[i]) \/ tasks[i].kind = "missinginput") =>
         /\ \A k \in DOMAIN written : written[k].dir # tasks[i].dir
         /\ \A k \in DOMAIN uploads : uploads[k] # tasks[i].dir

\* one module failed after an extraction had succeeded, with writing and
\* uploading on, and another module's report was written
C4_Witness ==
  /\ argv.output /\ argv.ci
  /\ \E i \in ModuleTasks :
       tasks[i].pc = "failed" /\ tasks[i].err = EXTRACTION_FAILED /\ Len(tasks[i].keys) >= 1
  /\ written # <<>>

\* C5: a manifest with typings and no bundle field fails with
\* BUNDLE_FILE_DOES_NOT_EXIST before generateReport, the declaration extractor
\* or any extraction is invoked, and writes nothing; no package.json, or no
\* typings field, is a silent no-op.
C5_BundleCheckFirst ==
  \A i \in ModuleTasks :
    /\ tasks[i].kind = "nobundle" =>
         /\ tasks[i].pc = "failed"
         /\ tasks[i].err = BUNDLE_FILE_DOES_NOT_EXIST
    /\ tasks[i].kind \in {"nomanifest", "notypings"} =>
         /\ tasks[i].pc = "skipped"
         /\ tasks[i].err = "none"
    /\ tasks[i].kind \in {"nobundle", "nomanifest", "notypings"} =>
         /\ ~tasks[i].entered
         /\ ~tasks[i].extracted
         /\ tasks[i].calls = <<>>
         /\ \A k \in DOMAIN written : written[k].dir # tasks[i].dir
         /\ \A k \in DOMAIN uploads : uploads[k] # tasks[i].dir

\* a module without a bundle field and a directory without package.json were
\* both visited, with writing on
C5_Witness ==
  /\ argv.output
  /\ mainPc = "done"
  /\ \E i \in ModuleTasks : tasks[i].kind = "nobundle"
  /\ \E i \in ModuleTasks : tasks[i].kind = "nomanifest"

\* C6: the executor is invoked at most once on a directory, never on one
\* deeper than levelLimit, on the root first and on a directory before its
\* subdirectories; when traverseDirs returns, it was invoked on every
\* directory of depth at most levelLimit.
C6_TraversalVisits ==
  /\ \A i \in DOMAIN tasks : Depth(tasks[i].dir) <= levelLimit
  /\ \A i, j \in DOMAIN tasks : i # j => tasks[i].dir # tasks[j].dir
  /\ tasks # <<>> => tasks[1].dir = 1
  /\ \A j \in DOMAIN tasks :
       parent[tasks[j].dir] # 0 => \E i \in 1..(j - 1) : tasks[i].dir = parent[tasks[j].dir]
  /\ mainPc = "done" =>
       {tasks[i].dir : i \in DOMAIN tasks} = {d \in Dirs : Depth(d) <= levelLimit}

\* a traversal returned that visited three directories and left out a deeper one
C6_Witness ==
  /\ mainPc = "done"
  /\ Len(tasks) >= 3
  /\ \E d \in Dirs : Depth(d) > levelLimit

\* C7 (as claimed): with inputDtsFile set and inputBundleFile not set, main
\* fails with INVALID_FLAG_COMBINATION and generates no report, whatever the
\* other flags.
C7_DtsOnlyIsInvalid ==
  (argv.inputDtsFile /\ ~argv.inputBundleFile /\ mainPc # "start") =>
    /\ mainPc = "failed"
    /\ mainErr = INVALID_FLAG_COMBINATION
    /\ tasks = <<>>
    /\ written = <<>>

\* C7 (amended): with inputDtsFile set and inputBundleFile not set, main
\* generates no report and fails: with INVALID_FLAG_COMBINATION when output or
\* ci is set, with REPORT_REDIRECTION_ERROR when neither is.
C7_DtsOnlyIsInvalidWhenRedirected ==
  (argv.inputDtsFile /\ ~argv.inputBundleFile /\ mainPc # "start") =>
    /\ mainPc = "failed"
    /\ mainErr = IF argv.output \/ argv.ci THEN INVALID_FLAG_COMBINATION
                 ELSE REPORT_REDIRECTION_ERROR
    /\ tasks = <<>>
    /\ written = <<>>
    /\ uploads = <<>>

\* main has failed on inputDtsFile alone, with an output path given
C7_Witness ==
  /\ argv.inputDtsFile /\ ~argv.inputBundleFile /\ argv.output
  /\ mainPc = "failed"
  /\ mainErr = INVALID_FLAG_COMBINATION

\* C8: with neither output nor ci set, main fails with
\* REPORT_REDIRECTION_ERROR before any module discovery, declaration
\* extraction, per-symbol extraction or write.
C8_RedirectionCheckedFirst ==
  (~argv.output /\ ~argv.ci /\ mainPc # "start") =>
    /\ mainPc = "failed"
    /\ mainErr = REPORT_REDIRECTION_ERROR
    /\ ~discovered
    /\ pending = <<>>
    /\ tasks = <<>>
    /\ written = <<>>
    /\ uploads = <<>>

\* main has failed for want of a destination, in what is otherwise a batch run
\* over a workspace with modules
C8_Witness ==
  /\ ~argv.output /\ ~argv.ci /\ ~argv.inputDtsFile /\ ~argv.inputBundleFile
  /\ WorkspacePackages # <<>>
  /\ mainPc = "failed"

\* C9 (as claimed): in batch mode generateReportForModules is handed all
\* discovered modules when the list of requested names is empty, whether
\* inputModule is absent or an empty list, and the discovered modules named in
\* the list otherwise.
C9_EmptyListMeansAll ==
  (Mode(argv) = "batch" /\ mainPc \in {"traversing", "done"}) =>
    moduleLocations =
      IF argv.inputModule.names = {} THEN WorkspacePackages
      ELSE SelectSeq(WorkspacePackages, LAMBDA d : PackageName(d) \in argv.inputModule.names)

\* C10: within one report the extractor is invoked on the listed symbols in
\* the order classes, functions, variables, enums, each invocation after the
\* one before has completed, and the keys of the report are in that order (a
\* name listed twice has its key where it was first listed).
C10_ExtractionOrder ==
  \A i \in DOMAIN tasks :
    /\ IsPrefix(tasks[i].calls, Order(decls))
    /\ Len(tasks[i].calls) <= tasks[i].fulfilled + 1
    /\ tasks[i].pc = "extracting" => Len(tasks[i].calls) = tasks[i].fulfilled + 1
    /\ tasks[i].keys = FirstOccurrences(tasks[i].calls, tasks[i].fulfilled)
    /\ tasks[i].pc \in {"built", "done"} =>
         /\ tasks[i].calls = Order(decls)
         /\ tasks[i].fulfilled = Len(Order(decls))
         /\ tasks[i].json = FirstOccurrences(Order(decls), Len(Order(decls)))
         /\ NoDuplicates(Order(decls)) => tasks[i].json = Order(decls)

\* the third extraction of a report is in flight, after a function and before
\* an enum
C10_Witness ==
  /\ decls.functions # <<>> /\ decls.enums # <<>>
  /\ NoDuplicates(Order(decls))
  /\ \E i \in DOMAIN tasks : tasks[i].pc = "extracting" /\ Len(tasks[i].calls) = 3

====
